---- MODULE Spec2Model ----
(***************************************************************************)
(* bottleneck: a poller that fetches the QLD traffic event feed, keeps the *)
(* events relevant to the configured postcodes and posts a notification to *)
(* Home Assistant (src/main.py), together with the relevancy configuration *)
(* and the notified-events ledger (src/config.py), the field parsers       *)
(* (src/util.py) and the event models (src/models.py).                     *)
(*                                                                         *)
(* A Python str is a sequence of one-character strings, so that split,     *)
(* strip, isdigit and int act on characters.  The ledger file is a         *)
(* sequence of JSON tokens with numbers spelt in decimal digits.           *)
(***************************************************************************)
EXTENDS Integers, Sequences, FiniteSets, TLC

VARIABLES
    postcodes,        \* SpecParse: the road_summary.postcode text given to parse_postcode
    parsed,           \* SpecParse: what parse_postcode did with it
    config,           \* the relevancy criteria of the run (immutable during a run)
    event,            \* SpecClassify: the event given to is_relevant_event
    verdict,          \* SpecClassify: what is_relevant_event did with it
    file,             \* the file at NOTIFIED_EVENTS_PATH: [exists, text]
    ledger,           \* SpecLedger: the NotifiedEvents object of the process: [loaded, model]
    last,             \* SpecLedger: the last ledger operation and its outcome; created
                      \* says that the object in use was made by a load on a missing path
                      \* (had: contains(id) was true when the append was made;
                      \* unchecked: some append so far was made for an id present)
    other,            \* SpecOverlap: the NotifiedEvents object of a second process
    history,          \* SpecOverlap: the ledger operations of the two processes, in order
    feed,             \* Spec: what GET /events returns (the same at every run)
    run,              \* Spec: number of the current invocation of main
    pc,               \* Spec: where main is
    relevant_events,  \* Spec: main's list of relevant events
    fetches,          \* Spec: GET /events requests made, as the runs that made them
    sink,             \* Spec: POST /api/events/traffic_event requests received
    raised,           \* Spec: the exception that ended the current run, or "none"
    outcomes          \* Spec: how each earlier run ended, "done" or "error"

vars == <<postcodes, parsed, config, event, verdict, file, ledger, last, other, history,
          feed, run, pc, relevant_events, fetches, sink, raised, outcomes>>

parseVars == <<postcodes, parsed>>
classifyVars == <<event, verdict>>
ledgerVars == <<ledger, last, other, history>>
runVars == <<feed, run, pc, relevant_events, fetches, sink, raised, outcomes>>

(***************************************************************************)
(* Bounds of the model.                                                    *)
(***************************************************************************)
MaxLen == 5          \* longest postcode text of SpecParse, in characters
MaxTokens == 2       \* most " / "-separated tokens of a field in SpecClassify
MaxFeed == 2         \* most events in the feed
MaxRuns == 2         \* invocations of main in a row
MaxId == 2           \* event ids are 1..MaxId
MaxRecords == 2      \* most records a ledger grows to

(***************************************************************************)
(* Python strings.                                                         *)
(***************************************************************************)
Digits == <<"0", "1", "2", "3", "4", "5", "6", "7", "8", "9">>

\* Characters of Unicode category Nd: str.isdigit() holds and int() reads them.
DecimalChars == {Digits[i] : i \in 1..Len(Digits)}

\* Characters such as U+00B2 SUPERSCRIPT TWO: Numeric_Type=Digit but not
\* Nd, so str.isdigit() holds and int() raises ValueError.
SuperscriptChars == {"^2"}

Alphabet == {"4", "0", " ", "/", "-", "^2"}

Sep == <<" ", "/", " ">>

IsPrefix(p, s) == Len(s) >= Len(p) /\ SubSeq(s, 1, Len(p)) = p

RECURSIVE split_from(_, _)
split_from(s, cur) ==
    IF s = <<>> THEN <<cur>>
    ELSE IF IsPrefix(Sep, s)
         THEN <<cur>> \o split_from(SubSeq(s, Len(Sep) + 1, Len(s)), <<>>)
         ELSE split_from(Tail(s), Append(cur, Head(s)))

\* str.split(" / "): left to right, non-overlapping; never an empty list.
split(s) == split_from(s, <<>>)

RECURSIVE join(_)
join(tokens) ==
    IF tokens = <<>> THEN <<>>
    ELSE IF Len(tokens) = 1 THEN tokens[1]
         ELSE tokens[1] \o Sep \o join(Tail(tokens))

\* str.isdigit(): non-empty and every character a digit character.
isdigit(p) ==
    /\ Len(p) > 0
    /\ \A i \in 1..Len(p) : p[i] \in DecimalChars \cup SuperscriptChars

IsDecimal(p) == Len(p) > 0 /\ \A i \in 1..Len(p) : p[i] \in DecimalChars

DigitValue(c) == CHOOSE d \in 0..9 : Digits[d + 1] = c

RECURSIVE DecimalValue(_)
DecimalValue(p) ==
    IF p = <<>> THEN 0
    ELSE 10 * DecimalValue(SubSeq(p, 1, Len(p) - 1)) + DigitValue(p[Len(p)])

\* int(p) for a p that passed isdigit: the value, or ValueError.
py_int(p) ==
    IF IsDecimal(p) THEN [raised |-> FALSE, value |-> DecimalValue(p)]
    ELSE [raised |-> TRUE, value |-> 0]

RECURSIVE lstrip(_)
lstrip(s) == IF s # <<>> /\ Head(s) = " " THEN lstrip(Tail(s)) ELSE s

RECURSIVE rstrip(_)
rstrip(s) ==
    IF s # <<>> /\ s[Len(s)] = " " THEN rstrip(SubSeq(s, 1, Len(s) - 1)) ELSE s

strip(s) == rstrip(lstrip(s))

(***************************************************************************)
(* src/main.py, src/util.py: the field parsers.                           *)
(***************************************************************************)
\* [int(p) for p in postcodes.split(" / ") if p.isdigit()], "-" giving [].
parse_postcode(pcs) ==
    IF pcs = <<"-">> THEN [raised |-> FALSE, value |-> <<>>]
    ELSE LET toks == SelectSeq(split(pcs), isdigit)
             ints == [i \in 1..Len(toks) |-> py_int(toks[i])]
         IN  IF \E i \in 1..Len(toks) : ints[i].raised
             THEN [raised |-> TRUE, value |-> <<>>]
             ELSE [raised |-> FALSE, value |-> [i \in 1..Len(toks) |-> ints[i].value]]

\* An optional str is <<>> (None) or <<s>>.
None == <<>>
Some(s) == <<s>>

parse_suburbs(suburbs) ==
    IF suburbs = None \/ suburbs = Some(<<"-">>) THEN <<>>
    ELSE LET toks == split(suburbs[1])
         IN  [i \in 1..Len(toks) |-> strip(toks[i])]

(***************************************************************************)
(* src/models.py, src/config.py: events and relevancy criteria.           *)
(***************************************************************************)
DEFAULT_RELEVANT_EVENT_TYPES == {"Congestion", "Crash", "Flooding", "Hazard", "Roadworks"}

\* The fields of models.Event that the code or the claims read.
Event(id, event_type, event_subtype, postcode, locality, towards) ==
    [id |-> id, event_type |-> event_type, event_subtype |-> event_subtype,
     postcode |-> postcode, locality |-> locality, towards |-> towards]

EventRelevancyConfig(types, pcs, suburbs, towards_suburbs) ==
    [types |-> types, postcodes |-> pcs, suburbs |-> suburbs,
     towards_suburbs |-> towards_suburbs]

(***************************************************************************)
(* src/main.py: the relevancy check.                                      *)
(***************************************************************************)
\* is_relevant_event testing only the first parsed postcode.
is_relevant_event_first_only(cfg, e) ==
    LET postcodes_parsed == parse_postcode(e.postcode)
    IN  IF postcodes_parsed.raised THEN "ValueError"
        ELSE IF Len(postcodes_parsed.value) > 0
                /\ postcodes_parsed.value[1] \in cfg.postcodes
             THEN "True" ELSE "False"

\* "True" or "False" as returned, "ValueError" when parse_postcode raises.
is_relevant_event(cfg, e) ==
    LET postcodes_parsed == parse_postcode(e.postcode)
    IN  IF postcodes_parsed.raised THEN "ValueError"
        ELSE IF \E i \in 1..Len(postcodes_parsed.value) :
                    postcodes_parsed.value[i] \in cfg.postcodes
             THEN "True" ELSE "False"

\* The list comprehension without its filter.
select_relevant_keep_all(cfg, events) ==
    [raised |-> FALSE, value |-> events]

\* [e for e in events.features if is_relevant_event(config=config, event=e)]
select_relevant(cfg, events) ==
    IF \E i \in 1..Len(events) : is_relevant_event(cfg, events[i]) = "ValueError"
    THEN [raised |-> TRUE, value |-> <<>>]
    ELSE LET keep(e) == is_relevant_event(cfg, e) = "True"
         IN  [raised |-> FALSE, value |-> SelectSeq(events, keep)]

\* The description counting the first event among the "more".
description_counts_all(relevant) ==
    [summary |-> Head(relevant).event_subtype, more |-> Len(relevant)]

\* notify_home_assistant: the description posted for a non-empty list, the
\* first event's subtype and the count of the others ("... + N more").
description(relevant) ==
    [summary |-> Head(relevant).event_subtype, more |-> Len(Tail(relevant))]

(***************************************************************************)
(* src/config.py: the notified-events ledger and its file.                *)
(***************************************************************************)
NotifiedEvent(event_id, reason) == [event_id |-> event_id, reason |-> reason]

\* NotifiedEvents.Model: events and version.  A ledger value also says
\* whether the process holds a NotifiedEvents object at all.
Model(events, version) == [loaded |-> TRUE, events |-> events, version |-> version]

Quote == "'"

RECURSIVE str_int(_)
str_int(n) ==
    IF n < 10 THEN <<Digits[n + 1]>>
    ELSE str_int(n \div 10) \o <<Digits[(n % 10) + 1]>>

dump_event(ne) ==
    <<"{", "event_id", ":">> \o str_int(ne.event_id)
        \o <<",", "reason", ":", Quote, ne.reason, Quote, "}">>

RECURSIVE dump_events(_)
dump_events(events) ==
    IF events = <<>> THEN <<>>
    ELSE IF Len(events) = 1 THEN dump_event(events[1])
         ELSE dump_event(events[1]) \o <<",">> \o dump_events(Tail(events))

\* Model.model_dump_json: the fields in declaration order.
model_dump_json(m) ==
    <<"{", "events", ":", "[">> \o dump_events(m.events)
        \o <<"]", ",", "version", ":">> \o str_int(m.version) \o <<"}">>

Bad == [ok |-> FALSE, value |-> 0, rest |-> <<>>]

RECURSIVE digits_prefix(_)
digits_prefix(s) ==
    IF s # <<>> /\ Head(s) \in DecimalChars
    THEN <<Head(s)>> \o digits_prefix(Tail(s)) ELSE <<>>

\* A JSON integer: digits, with no leading zero.
parse_int(s) ==
    LET d == digits_prefix(s)
    IN  IF d = <<>> \/ (Len(d) > 1 /\ d[1] = "0") THEN Bad
        ELSE [ok |-> TRUE, value |-> DecimalValue(d), rest |-> SubSeq(s, Len(d) + 1, Len(s))]

parse_event(s) ==
    IF ~IsPrefix(<<"{", "event_id", ":">>, s) THEN Bad
    ELSE LET n == parse_int(SubSeq(s, 4, Len(s)))
             t == n.rest
         IN  IF ~n.ok \/ ~IsPrefix(<<",", "reason", ":", Quote>>, t) \/ Len(t) < 7
                \/ t[5] = Quote \/ t[6] # Quote \/ t[7] # "}"
             THEN Bad
             ELSE [ok |-> TRUE, value |-> NotifiedEvent(n.value, t[5]),
                   rest |-> SubSeq(t, 8, Len(t))]

\* The elements of the events array up to its "]": after the element e,
\* a "]" ends the array and a "," announces the next element.
RECURSIVE parse_events(_, _)
RECURSIVE parse_events_after(_, _)
parse_events_after(e, acc) ==
    IF ~e.ok \/ e.rest = <<>> THEN [ok |-> FALSE, value |-> <<>>, rest |-> <<>>]
    ELSE IF Head(e.rest) = "]"
         THEN [ok |-> TRUE, value |-> Append(acc, e.value), rest |-> Tail(e.rest)]
         ELSE IF Head(e.rest) = ","
              THEN parse_events(Tail(e.rest), Append(acc, e.value))
              ELSE [ok |-> FALSE, value |-> <<>>, rest |-> <<>>]

parse_events(s, acc) ==
    IF s # <<>> /\ Head(s) = "]" /\ acc = <<>>
    THEN [ok |-> TRUE, value |-> acc, rest |-> Tail(s)]
    ELSE parse_events_after(parse_event(s), acc)

\* Model.model_validate_json: the model, or ValidationError (ok = FALSE).
model_validate_json(text) ==
    IF ~IsPrefix(<<"{", "events", ":", "[">>, text) THEN [ok |-> FALSE, events |-> <<>>, version |-> 0]
    ELSE LET es == parse_events(SubSeq(text, 5, Len(text)), <<>>)
             v == IF es.ok /\ IsPrefix(<<",", "version", ":">>, es.rest)
                  THEN parse_int(SubSeq(es.rest, 4, Len(es.rest))) ELSE Bad
         IN  IF es.ok /\ v.ok /\ v.rest = <<"}">>
             THEN [ok |-> TRUE, events |-> es.value, version |-> v.value]
             ELSE [ok |-> FALSE, events |-> <<>>, version |-> 0]

NoLedger == [loaded |-> FALSE, events |-> <<>>, version |-> 0]
NoFile == [exists |-> FALSE, text |-> <<>>]

\* NotifiedEvents.from_config on the file f: the object it returns (or that
\* it raised) and the file it leaves.  path.touch() creates an empty file.
from_config(f) ==
    IF ~f.exists
    THEN [raised |-> FALSE, ledger |-> Model(<<>>, 1), file |-> [exists |-> TRUE, text |-> <<>>]]
    ELSE LET m == model_validate_json(f.text)
         IN  IF m.ok
             THEN [raised |-> FALSE, ledger |-> Model(m.events, m.version), file |-> f]
             ELSE [raised |-> TRUE, ledger |-> NoLedger, file |-> f]

\* A membership test that compares the id with the records themselves: an
\* integer never equals a NotifiedEvent.
contains_compares_records(l, id) == \E i \in 1..Len(l.events) : FALSE

contains(l, id) == \E i \in 1..Len(l.events) : l.events[i].event_id = id

\* append_event on the records the file holds now rather than on the list
\* in memory.
append_event_reread(l, f, id, reason) ==
    [ledger |-> [l EXCEPT !.events = Append(from_config(f).ledger.events,
                                            NotifiedEvent(id, reason))],
     file |-> [exists |-> TRUE, text |-> model_dump_json(
                  [l EXCEPT !.events = Append(from_config(f).ledger.events,
                                              NotifiedEvent(id, reason))])]]

\* append_event that puts the new record first.
append_event_prepend(l, f, id, reason) ==
    [ledger |-> [l EXCEPT !.events = <<NotifiedEvent(id, reason)>> \o @],
     file |-> [exists |-> TRUE, text |-> model_dump_json(
                  [l EXCEPT !.events = <<NotifiedEvent(id, reason)>> \o @])]]

\* append_event with its two statements in the other order.
append_event_write_first(l, f, id, reason) ==
    [ledger |-> [l EXCEPT !.events = Append(@, NotifiedEvent(id, reason))],
     file |-> [exists |-> TRUE, text |-> model_dump_json(l)]]

\* NotifiedEvents.append_event: append in memory, then rewrite the file.
append_event(l, f, id, reason) ==
    LET m == [l EXCEPT !.events = Append(@, NotifiedEvent(id, reason))]
    IN  [ledger |-> m, file |-> [exists |-> TRUE, text |-> model_dump_json(m)]]

\* write_text raises OSError part-way: open() fails and the file is as it
\* was (written = -1), or the file has been truncated by open() and holds
\* only the first `written` tokens of the new text.
write_text_fails(f, text, written) ==
    IF written < 0 THEN f
    ELSE [exists |-> TRUE, text |-> SubSeq(text, 1, written)]

\* append_event that takes the record back out of memory when the write fails.
append_event_oserror_rollback(l, f, id, reason, written) ==
    [ledger |-> l,
     file |-> write_text_fails(f, model_dump_json(
                  [l EXCEPT !.events = Append(@, NotifiedEvent(id, reason))]), written),
     raised |-> TRUE]

\* NotifiedEvents.append_event when write_text raises: the record has been
\* appended in memory, nothing catches the OSError.
append_event_oserror(l, f, id, reason, written) ==
    [ledger |-> [l EXCEPT !.events = Append(@, NotifiedEvent(id, reason))],
     file |-> write_text_fails(f, model_dump_json(
                  [l EXCEPT !.events = Append(@, NotifiedEvent(id, reason))]), written),
     raised |-> TRUE]

(***************************************************************************)
(* Inputs.                                                                 *)
(***************************************************************************)
SeqsUpTo(S, lo, hi) == UNION {[1..n -> S] : n \in lo..hi}

Strings == SeqsUpTo(Alphabet, 0, MaxLen)

PostcodeTokens == {<<"4">>, <<"4", "0">>, <<"-">>, <<"^2">>}
SuburbTokens == {<<"T">>, <<" ", "M">>}

PostcodeFields == {join(ts) : ts \in SeqsUpTo(PostcodeTokens, 0, MaxTokens)}
LocalityFields ==
    {None, Some(<<"-">>)} \cup {Some(join(ts)) : ts \in SeqsUpTo(SuburbTokens, 1, MaxTokens)}
TowardsFields == {None, Some(<<"T">>)}

Configs ==
    {EventRelevancyConfig(t, p, s, w) :
        t \in {DEFAULT_RELEVANT_EVENT_TYPES}, p \in SUBSET {4, 40},
        s \in {{}, {<<"T">>}}, w \in {{}, {<<"T">>}}}

ClassifyEvents ==
    {Event(1, t, "Multi-vehicle", p, l, w) :
        t \in {"Crash", "Special Event"}, p \in PostcodeFields,
        l \in LocalityFields, w \in TowardsFields}

NoConfig == EventRelevancyConfig({}, {}, {}, {})
NoEvent == Event(0, "N/A", "N/A", <<>>, None, None)
NoOp ==
    [op |-> "none", event_id |-> 0, reason |-> "", raised |-> FALSE,
     created |-> FALSE, had |-> FALSE, unchecked |-> FALSE]
Pending == [state |-> "pending", value |-> <<>>]

RunOff ==
    /\ feed = <<>> /\ run = 0 /\ pc = "off" /\ relevant_events = <<>>
    /\ fetches = <<>> /\ sink = <<>> /\ raised = "none" /\ outcomes = <<>>

(***************************************************************************)
(* SpecParse: parse_postcode applied to every text up to MaxLen.           *)
(***************************************************************************)
InitParse ==
    /\ postcodes \in Strings
    /\ parsed = Pending
    /\ config = NoConfig /\ event = NoEvent /\ verdict = "pending"
    /\ file = NoFile /\ ledger = NoLedger /\ last = NoOp /\ other = NoLedger /\ history = <<>>
    /\ RunOff

Parse ==
    /\ parsed.state = "pending"
    /\ LET r == parse_postcode(postcodes)
       IN  parsed' = [state |-> IF r.raised THEN "raised" ELSE "returned",
                      value |-> r.value]
    /\ UNCHANGED <<postcodes, config, classifyVars, file, ledgerVars, runVars>>

NextParse == Parse

SpecParse == InitParse /\ [][NextParse]_vars

(***************************************************************************)
(* SpecClassify: is_relevant_event applied to events and criteria.         *)
(***************************************************************************)
InitClassify ==
    /\ config \in Configs
    /\ event \in ClassifyEvents
    /\ verdict = "pending"
    /\ postcodes = <<>> /\ parsed = Pending
    /\ file = NoFile /\ ledger = NoLedger /\ last = NoOp /\ other = NoLedger /\ history = <<>>
    /\ RunOff

Classify ==
    /\ verdict = "pending"
    /\ verdict' = is_relevant_event(config, event)
    /\ UNCHANGED <<parseVars, config, event, file, ledgerVars, runVars>>

NextClassify == Classify

SpecClassify == InitClassify /\ [][NextClassify]_vars

(***************************************************************************)
(* Claims about the parsers and the relevancy check.                       *)
(***************************************************************************)
Tokens(e) == split(e.postcode)
TypeGatePasses == event.event_type \in config.types
Returned == verdict \in {"True", "False"}

\* C5: whenever the event's type is not in the criteria's types, the verdict
\* the classifier returns is Irrelevant, whatever the postcode, locality and
\* towards fields hold.
C5_TypeGate ==
    (Returned /\ ~TypeGatePasses) => verdict = "False"

\* C6: for an event whose type is in the criteria's types and none of whose
\* parsed postcodes is in the criteria's postcodes, the verdict is relevant
\* when a parsed locality is in the criteria's suburbs, else relevant when
\* impact.towards is in the criteria's towards suburbs, else Irrelevant.
C6_SuburbMatches ==
    LET ls == parse_suburbs(event.locality)
    IN  \E i \in 1..Len(ls) : ls[i] \in config.suburbs
C6_TowardsMatches ==
    event.towards # None /\ event.towards[1] \in config.towards_suburbs
C6_RuleFallThrough ==
    (Returned /\ TypeGatePasses
        /\ LET p == parse_postcode(event.postcode)
           IN  ~p.raised /\ \A i \in 1..Len(p.value) : p.value[i] \notin config.postcodes)
    => verdict = (IF C6_SuburbMatches \/ C6_TowardsMatches THEN "True" ELSE "False")

\* C7: an event that passes the type gate and whose postcode field holds
\* several " / "-separated postcodes is relevant when any one of them, at
\* whatever position, is in the criteria's postcodes.
C7_SeveralPostcodes ==
    /\ event.postcode # <<"-">>
    /\ Len(Tokens(event)) >= 2
    /\ \A i \in 1..Len(Tokens(event)) : IsDecimal(Tokens(event)[i])
C7_AnyPosition ==
    (verdict # "pending" /\ TypeGatePasses /\ C7_SeveralPostcodes
        /\ \E i \in 1..Len(Tokens(event)) :
              DecimalValue(Tokens(event)[i]) \in config.postcodes)
    => verdict = "True"
C7_Witness ==
    /\ verdict = "True" /\ TypeGatePasses /\ C7_SeveralPostcodes
    /\ DecimalValue(Tokens(event)[1]) \notin config.postcodes
    /\ DecimalValue(Tokens(event)[2]) \in config.postcodes

\* C8: parse_postcode never fails; it returns the empty list for "-" and
\* otherwise exactly the " / "-separated tokens that are non-negative
\* integers, in field order, discarding every other token.
C8_IntegerTokens ==
    IF postcodes = <<"-">> THEN <<>>
    ELSE LET toks == SelectSeq(split(postcodes), IsDecimal)
         IN  [i \in 1..Len(toks) |-> DecimalValue(toks[i])]
C8_KeepsIntegersOnly ==
    parsed.state # "pending"
    => (parsed.state = "returned" /\ parsed.value = C8_IntegerTokens)

(***************************************************************************)
(* SpecLedger: a process that loads the ledger and appends to it.          *)
(***************************************************************************)
Reasons == {"postcode", "suburb"}
Records == {NotifiedEvent(i, r) : i \in 1..MaxId, r \in Reasons}

\* The file before the process starts: missing, empty, cut short, or written
\* by an earlier process.
InitialFiles ==
    {NoFile, [exists |-> TRUE, text |-> <<>>], [exists |-> TRUE, text |-> <<"{", "events", ":", "[">>]}
    \cup {[exists |-> TRUE, text |-> model_dump_json(Model(es, v))] :
            es \in SeqsUpTo(Records, 0, 1), v \in {1, 2}}

InitLedger ==
    /\ file \in InitialFiles
    /\ ledger = NoLedger
    /\ last = NoOp
    /\ other = NoLedger /\ history = <<>>
    /\ postcodes = <<>> /\ parsed = Pending
    /\ config = NoConfig /\ event = NoEvent /\ verdict = "pending"
    /\ RunOff

\* NotifiedEvents.from_config(config)
Load ==
    /\ LET r == from_config(file)
       IN  /\ ledger' = r.ledger
           /\ file' = r.file
           /\ last' = [op |-> "load", event_id |-> 0, reason |-> "",
                       raised |-> r.raised, created |-> ~file.exists,
                       had |-> FALSE, unchecked |-> last.unchecked]
    /\ UNCHANGED <<parseVars, config, classifyVars, runVars, other, history>>

\* notified.append_event(event, reason)
AppendEvent(id, reason) ==
    /\ ledger.loaded
    /\ Len(ledger.events) < MaxRecords
    /\ LET r == append_event(ledger, file, id, reason)
       IN  /\ ledger' = r.ledger
           /\ file' = r.file
    /\ last' = [op |-> "append", event_id |-> id, reason |-> reason,
                raised |-> FALSE, created |-> last.created,
                had |-> contains(ledger, id),
                unchecked |-> last.unchecked \/ contains(ledger, id)]
    /\ UNCHANGED <<parseVars, config, classifyVars, runVars, other, history>>

\* notified.append_event(event, reason) while the file cannot be rewritten
AppendEventFails(id, reason) ==
    /\ ledger.loaded
    /\ Len(ledger.events) < MaxRecords
    /\ \E written \in -1..(Len(append_event(ledger, file, id, reason).file.text) - 1) :
          LET r == append_event_oserror(ledger, file, id, reason, written)
          IN  /\ ledger' = r.ledger
              /\ file' = r.file
              /\ last' = [op |-> "append", event_id |-> id, reason |-> reason,
                          raised |-> r.raised, created |-> last.created,
                          had |-> contains(ledger, id),
                          unchecked |-> last.unchecked \/ contains(ledger, id)]
    /\ UNCHANGED <<parseVars, config, classifyVars, runVars, other, history>>

NextLedger ==
    \/ Load
    \/ \E id \in 1..MaxId, reason \in Reasons : AppendEvent(id, reason)
    \/ \E id \in 1..MaxId, reason \in Reasons : AppendEventFails(id, reason)

SpecLedger == InitLedger /\ [][NextLedger]_vars

(***************************************************************************)
(* Two processes with one NotifiedEvents object each on the same path.    *)
(* Nothing in NotifiedEvents locks the file or re-reads it before a write. *)
(***************************************************************************)
MaxOps == 4          \* ledger operations of the two processes together
Procs == {1, 2}
Obj(p) == IF p = 1 THEN ledger ELSE other

OverlapFiles ==
    {NoFile, [exists |-> TRUE, text |-> model_dump_json(Model(<<>>, 1))],
     [exists |-> TRUE, text |-> model_dump_json(Model(<<NotifiedEvent(MaxId, "suburb")>>, 1))]}

InitOverlap ==
    /\ file \in OverlapFiles
    /\ ledger = NoLedger /\ other = NoLedger
    /\ history = <<>>
    /\ last = NoOp
    /\ postcodes = <<>> /\ parsed = Pending
    /\ config = NoConfig /\ event = NoEvent /\ verdict = "pending"
    /\ RunOff

\* NotifiedEvents.from_config(config) in process p
OverlapLoad(p) ==
    /\ Len(history) < MaxOps
    /\ LET r == from_config(file)
       IN  /\ ledger' = IF p = 1 THEN r.ledger ELSE ledger
           /\ other' = IF p = 2 THEN r.ledger ELSE other
           /\ file' = r.file
           /\ history' = Append(history, [proc |-> p, op |-> "load", event_id |-> 0,
                                          ok |-> ~r.raised])
    /\ UNCHANGED <<parseVars, config, classifyVars, runVars, last>>

\* notified.append_event(event, reason) in process p
OverlapAppend(p, id) ==
    /\ Len(history) < MaxOps
    /\ Obj(p).loaded
    /\ Len(Obj(p).events) < MaxRecords
    /\ LET r == append_event(Obj(p), file, id, "postcode")
       IN  /\ ledger' = IF p = 1 THEN r.ledger ELSE ledger
           /\ other' = IF p = 2 THEN r.ledger ELSE other
           /\ file' = r.file
    /\ history' = Append(history, [proc |-> p, op |-> "append", event_id |-> id,
                                   ok |-> TRUE])
    /\ UNCHANGED <<parseVars, config, classifyVars, runVars, last>>

NextOverlap ==
    \/ \E p \in Procs : OverlapLoad(p)
    \/ \E p \in Procs, id \in 1..MaxId : OverlapAppend(p, id)

SpecOverlap == InitOverlap /\ [][NextOverlap]_vars

(***************************************************************************)
(* Claims about the ledger.                                                *)
(***************************************************************************)
\* C3: after append(id, reason) on any loaded ledger, a load from the same
\* path succeeds and yields a ledger whose records include the record
\* (id, reason) and for which contains(id) is true.
C3_RoundTrip ==
    (last.op = "append" /\ ~last.raised)
    => LET r == from_config(file)
       IN  /\ ~r.raised
           /\ \E i \in 1..Len(r.ledger.events) :
                 r.ledger.events[i] = NotifiedEvent(last.event_id, last.reason)
           /\ contains(r.ledger, last.event_id)
C3_Witness ==
    /\ last.op = "append" /\ ~last.raised /\ last.created
    /\ ledger.events = <<NotifiedEvent(last.event_id, last.reason)>>
    /\ from_config(file).ledger = ledger

\* C4: a load on a missing path returns an empty version-1 ledger and
\* persists it, so that the next load of the path succeeds and returns the
\* same empty version-1 ledger.
C4_LazyCreationPersisted ==
    (last.op = "load" /\ last.created)
    => /\ ledger = Model(<<>>, 1)
       /\ ~from_config(file).raised
       /\ from_config(file).ledger = Model(<<>>, 1)

\* C13: as long as every append was made for an id that contains() had
\* reported absent on the same ledger object, no two records of the ledger,
\* in memory or in the file, share an event_id; append_event itself does not
\* deduplicate, so an append for an id that contains() reports present
\* leaves two records with that id.
C13_Unique(events) ==
    \A i, j \in 1..Len(events) : i # j => events[i].event_id # events[j].event_id
C13_Count(events, id) == Cardinality({i \in 1..Len(events) : events[i].event_id = id})
C13_LedgerUniqueness ==
    /\ ~last.unchecked =>
          /\ C13_Unique(ledger.events)
          /\ model_validate_json(file.text).ok
                => C13_Unique(model_validate_json(file.text).events)
    /\ (last.op = "append" /\ last.had) =>
          /\ C13_Count(ledger.events, last.event_id) >= 2
          /\ ~last.raised => C13_Count(model_validate_json(file.text).events,
                                       last.event_id) >= 2
C13_Witness ==
    /\ ~last.unchecked /\ last.op = "append" /\ ~last.raised
    /\ Len(ledger.events) = MaxRecords
    /\ from_config(file).ledger = ledger
C13_UncheckedWitness ==
    /\ last.op = "append" /\ last.had /\ ~last.raised
    /\ C13_Count(from_config(file).ledger.events, last.event_id) = 2

\* C14: records are never updated or deleted: the records persisted before
\* a successful append are a prefix of the records persisted after it, the
\* new record is the last one, the version is unchanged, and the file then
\* deserializes to exactly the ledger in memory.
C14_Appended == last'.op = "append" /\ ~last'.raised
C14_MonotonicLedger ==
    [][C14_Appended =>
        /\ file'.exists /\ model_validate_json(file'.text).ok
        /\ (file.exists /\ model_validate_json(file.text).ok) =>
              /\ IsPrefix(model_validate_json(file.text).events,
                          model_validate_json(file'.text).events)
              /\ Len(model_validate_json(file.text).events)
                    < Len(model_validate_json(file'.text).events)
              /\ model_validate_json(file.text).version
                    = model_validate_json(file'.text).version
        /\ model_validate_json(file'.text).events # <<>>
        /\ model_validate_json(file'.text).events[
               Len(model_validate_json(file'.text).events)]
             = NotifiedEvent(last'.event_id, last'.reason)
        /\ ledger' = Model(model_validate_json(file'.text).events,
                           model_validate_json(file'.text).version)
        /\ ledger.version = ledger'.version
        /\ IsPrefix(ledger.events, ledger'.events)]_vars
C14_Witness ==
    /\ last.op = "append" /\ ~last.raised /\ ~last.created
    /\ Len(ledger.events) = MaxRecords
    /\ ledger.events[1].event_id # ledger.events[MaxRecords].event_id
    /\ ledger.version # 1
    /\ from_config(file).ledger = ledger

\* C18: when the rewrite of the file inside append_event fails, the new
\* record stays in memory (contains(id) is true), the file does not hold
\* it, and the failure is raised to the caller.
C18_WriteFailed == last.op = "append" /\ last.raised
C18_PersistFailure ==
    C18_WriteFailed =>
        /\ contains(ledger, last.event_id)
        /\ ledger.events[Len(ledger.events)] = NotifiedEvent(last.event_id, last.reason)
        /\ \/ ~file.exists
           \/ ~model_validate_json(file.text).ok
           \/ /\ Len(model_validate_json(file.text).events) < Len(ledger.events)
              /\ IsPrefix(model_validate_json(file.text).events, ledger.events)
        /\ from_config(file).ledger # ledger
C18_Witness ==
    /\ C18_WriteFailed /\ ~last.had
    /\ ~from_config(file).raised
    /\ ~contains(from_config(file).ledger, last.event_id)
    /\ Len(ledger.events) = MaxRecords
C18_TruncatedWitness ==
    /\ C18_WriteFailed /\ from_config(file).raised /\ file.text # <<>>

\* C15: two ledger objects loaded from the same path overwrite each other:
\* when two processes have each loaded the file and then each appended a
\* different id, the file holds the record of the second writer and lacks
\* the record the first writer appended successfully; in general the file
\* is what the last writer had in memory.
C15_Overlap(p, q, k) ==
    /\ p # q
    /\ {history[k].proc, history[k + 1].proc} = {p, q}
    /\ history[k].op = "load" /\ history[k].ok
    /\ history[k + 1].op = "load" /\ history[k + 1].ok
    /\ history[k + 2] = [proc |-> p, op |-> "append", event_id |-> history[k + 2].event_id,
                         ok |-> TRUE]
    /\ history[k + 3] = [proc |-> q, op |-> "append", event_id |-> history[k + 3].event_id,
                         ok |-> TRUE]
    /\ history[k + 2].event_id # history[k + 3].event_id
    /\ Cardinality({i \in 1..Len(Obj(p).events) :
                       Obj(p).events[i].event_id = history[k + 2].event_id}) = 1
C15_LostUpdate ==
    /\ (history # <<>> /\ history[Len(history)].op = "append")
          => from_config(file).ledger = Obj(history[Len(history)].proc)
    /\ \A p, q \in Procs :
          (Len(history) >= 4 /\ C15_Overlap(p, q, Len(history) - 3))
          => /\ ~from_config(file).raised
             /\ contains(Obj(p), history[Len(history) - 1].event_id)
             /\ ~contains(from_config(file).ledger, history[Len(history) - 1].event_id)
             /\ contains(from_config(file).ledger, history[Len(history)].event_id)
C15_Witness ==
    /\ Len(history) = 4
    /\ C15_Overlap(1, 2, 1)
    /\ ~contains(from_config(file).ledger, history[3].event_id)
    /\ contains(ledger, history[3].event_id)

\* C11: a load of a file that is well-formed but whose version is not 1
\* fails as a corrupt ledger instead of returning a ledger.
C11_VersionMismatch ==
    file.exists /\ model_validate_json(file.text).ok
        /\ model_validate_json(file.text).version # 1
C11_VersionMismatchIsCorrupt ==
    (last.op = "load" /\ C11_VersionMismatch) => (last.raised /\ ~ledger.loaded)

(***************************************************************************)
(* Spec: main, invoked MaxRuns times in a row on the same feed and file.   *)
(***************************************************************************)
RunConfig == EventRelevancyConfig(DEFAULT_RELEVANT_EVENT_TYPES, {4}, {<<"T">>}, {})

\* Events of the feed: relevant by its second postcode; of a type outside
\* the criteria with a matching postcode; matching nothing; a postcode that
\* int() rejects.
FeedEvents ==
    UNION {{Event(i, "Crash", "Multi-vehicle", <<"4", "0", " ", "/", " ", "4">>, None, None),
            Event(i, "Special Event", "General", <<"4">>, None, None),
            Event(i, "Hazard", "Debris on road", <<"4", "0">>, Some(<<"M">>), None),
            Event(i, "Crash", "General", <<"^2">>, None, None)} : i \in 1..MaxId}

RunFiles ==
    {NoFile, [exists |-> TRUE, text |-> <<>>],
     [exists |-> TRUE, text |-> model_dump_json(Model(<<>>, 1))],
     [exists |-> TRUE, text |-> model_dump_json(Model(<<NotifiedEvent(1, "postcode")>>, 1))]}

Init ==
    /\ config = RunConfig
    /\ feed \in SeqsUpTo(FeedEvents, 0, MaxFeed)
    /\ file \in RunFiles
    /\ run = 1 /\ pc = "start" /\ relevant_events = <<>>
    /\ fetches = <<>> /\ sink = <<>> /\ raised = "none" /\ outcomes = <<>>
    /\ postcodes = <<>> /\ parsed = Pending
    /\ event = NoEvent /\ verdict = "pending"
    /\ ledger = NoLedger /\ last = NoOp /\ other = NoLedger /\ history = <<>>

\* main up to its first await: the clients are made, GET /events is sent.
FetchRequest ==
    /\ pc = "start"
    /\ fetches' = Append(fetches, run)
    /\ pc' = "fetching"
    /\ UNCHANGED <<parseVars, config, classifyVars, file, ledgerVars,
                   feed, run, relevant_events, sink, raised, outcomes>>

\* A fetch failure that is caught and treated as an empty feed.
FetchFail_swallowed ==
    /\ pc = "fetching"
    /\ pc' = "done"
    /\ raised' = "FetchError"
    /\ UNCHANGED <<parseVars, config, classifyVars, file, ledgerVars,
                   feed, run, relevant_events, fetches, sink, outcomes>>

\* fetch_events raises: an error status or a body that does not validate.
FetchFail ==
    /\ pc = "fetching"
    /\ pc' = "error"
    /\ raised' = "FetchError"
    /\ UNCHANGED <<parseVars, config, classifyVars, file, ledgerVars,
                   feed, run, relevant_events, fetches, sink, outcomes>>

\* fetch_events returns the feed; main filters it, returns when nothing is
\* relevant and otherwise posts one description to Home Assistant.
FetchOk ==
    /\ pc = "fetching"
    /\ LET r == select_relevant(config, feed)
       IN  IF r.raised
           THEN /\ pc' = "error" /\ raised' = "ValueError"
                /\ UNCHANGED <<relevant_events, sink>>
           ELSE /\ relevant_events' = r.value
                /\ raised' = raised
                /\ IF Len(r.value) = 0
                   THEN pc' = "done" /\ sink' = sink
                   ELSE /\ pc' = "notifying"
                        /\ sink' = Append(sink, [run |-> run,
                                                 description |-> description(r.value),
                                                 ids |-> [i \in 1..Len(r.value) |-> r.value[i].id],
                                                 status |-> "sent"])
    /\ UNCHANGED <<parseVars, config, classifyVars, file, ledgerVars,
                   feed, run, fetches, outcomes>>

\* The POST is answered with a success status: main returns.
NotifyOk ==
    /\ pc = "notifying"
    /\ sink' = [sink EXCEPT ![Len(sink)].status = "ok"]
    /\ pc' = "done"
    /\ UNCHANGED <<parseVars, config, classifyVars, file, ledgerVars,
                   feed, run, relevant_events, fetches, raised, outcomes>>

\* A send failure without raise_for_status: main returns normally.
NotifyFail_unchecked ==
    /\ pc = "notifying"
    /\ sink' = [sink EXCEPT ![Len(sink)].status = "failed"]
    /\ pc' = "done"
    /\ raised' = "SendError"
    /\ UNCHANGED <<parseVars, config, classifyVars, file, ledgerVars,
                   feed, run, relevant_events, fetches, outcomes>>

\* The POST fails or is answered with an error status: raise_for_status.
NotifyFail ==
    /\ pc = "notifying"
    /\ sink' = [sink EXCEPT ![Len(sink)].status = "failed"]
    /\ pc' = "error"
    /\ raised' = "SendError"
    /\ UNCHANGED <<parseVars, config, classifyVars, file, ledgerVars,
                   feed, run, relevant_events, fetches, outcomes>>

\* The process has exited; the scheduler invokes it again.
NextRun ==
    /\ pc \in {"done", "error"}
    /\ run < MaxRuns
    /\ run' = run + 1
    /\ pc' = "start"
    /\ relevant_events' = <<>>
    /\ raised' = "none"
    /\ outcomes' = Append(outcomes, pc)
    /\ UNCHANGED <<parseVars, config, classifyVars, file, ledgerVars,
                   feed, fetches, sink>>

Next ==
    \/ FetchRequest
    \/ FetchFail
    \/ FetchOk
    \/ NotifyOk
    \/ NotifyFail
    \/ NextRun

Spec == Init /\ [][Next]_vars

(***************************************************************************)
(* Claims about main.                                                      *)
(***************************************************************************)
SinkOfRun(r) == SelectSeq(sink, LAMBDA m : m.run = r)
Covers(m, id) == \E i \in 1..Len(m.ids) : m.ids[i] = id
RelevantIds ==
    {feed[i].id : i \in {j \in 1..Len(feed) : is_relevant_event(config, feed[j]) = "True"}}
NoneRelevant == \A i \in 1..Len(feed) : is_relevant_event(config, feed[i]) = "False"

\* C1: running main twice on the same feed and ledger file sends at most
\* one notification per distinct relevant event id, and the second run
\* makes no sink call (stated for a first run that completed, on a ledger
\* file that is missing or well-formed).
C1_IdempotentRun ==
    (run = 2 /\ outcomes = <<"done">> /\ ~from_config(file).raised)
    => /\ \A id \in RelevantIds :
             Cardinality({i \in 1..Len(sink) : Covers(sink[i], id)}) <= 1
       /\ SinkOfRun(2) = <<>>

\* C2: a run that completes has sent exactly one message per relevant event
\* whose id was not in the ledger, in feed order, and has appended one
\* ledger record per message.
C2_LedgerAtStart == from_config(file).ledger
C2_NewIds == {id \in RelevantIds : ~contains(C2_LedgerAtStart, id)}
C2_OneMessagePerEvent ==
    (run = 1 /\ pc = "done" /\ ~from_config(file).raised)
    => /\ Len(SinkOfRun(1)) = Cardinality(C2_NewIds)
       /\ \A id \in C2_NewIds : contains(from_config(file).ledger, id) /\ file.exists
       /\ \A i \in 1..Len(sink) : Len(sink[i].ids) = 1

\* C9: when no event of the feed is relevant, a run whose fetch succeeds
\* makes no sink call, leaves the ledger in memory and on disk as it was,
\* and completes successfully.
C9_EmptyRelevantSet ==
    [][NoneRelevant =>
        /\ sink' = <<>>
        /\ file' = file /\ ledger' = ledger
        /\ (pc = "fetching" /\ raised' = "none") => pc' = "done"]_vars
C9_Witness ==
    /\ NoneRelevant /\ Len(feed) = MaxFeed
    /\ run = MaxRuns /\ pc = "done" /\ sink = <<>>

\* C10: when the ledger file exists but does not parse, the run aborts
\* before any fetch of the feed and before any notification is sent.
C10_CorruptLedger == file.exists /\ ~model_validate_json(file.text).ok
C10_CorruptLedgerAbortsFirst ==
    C10_CorruptLedger => (fetches = <<>> /\ sink = <<>>)

\* C16: when the fetch of the feed fails, the run aborts with an error, no
\* event is classified, no notification is sent and the ledger is left
\* unchanged.
C16_FetchFailed == raised = "FetchError"
C16_FetchFailureIsFatal ==
    [][C16_FetchFailed' =>
        /\ pc' = "error"
        /\ relevant_events' = <<>>
        /\ SinkOfRun(run)' = <<>>
        /\ sink' = sink
        /\ file' = file /\ ledger' = ledger]_vars
C16_Witness ==
    /\ C16_FetchFailed /\ pc = "error" /\ run = MaxRuns
    /\ RelevantIds # {} /\ SinkOfRun(run) = <<>>

\* C17: when a notification send is not positively acknowledged, the run
\* aborts with an error, no later relevant event is sent in that run, and
\* no ledger record is added for the event whose send failed.
C17_SendFailed == raised = "SendError"
C17_SendFailureIsFatal ==
    [][C17_SendFailed' =>
        /\ pc' = "error"
        /\ Len(SinkOfRun(run)') = 1
        /\ sink'[Len(sink')].run = run' /\ sink'[Len(sink')].status = "failed"
        /\ Len(sink') = Len(sink)
        /\ file' = file /\ ledger' = ledger]_vars
C17_Witness ==
    /\ C17_SendFailed /\ pc = "error"
    /\ Len(relevant_events) = MaxFeed
    /\ sink[Len(sink)].status = "failed"
    /\ from_config(file).ledger = Model(<<>>, 1)

\* C19: main never hands notify_home_assistant an empty list: a run either
\* returns before the send because nothing is relevant, or posts once, for
\* the relevant events in feed order, a description made of the first
\* relevant event's subtype and the number of the remaining relevant events.
C19_RelevantIndices ==
    {i \in 1..Len(feed) : is_relevant_event(config, feed[i]) = "True"}
C19_First(idx) == feed[CHOOSE i \in idx : \A j \in idx : i <= j]
C19_NonEmptyNotify ==
    LET idx == C19_RelevantIndices
        n == Cardinality(idx)
    IN  /\ \A r \in 1..MaxRuns : Len(SinkOfRun(r)) <= 1
        /\ sink # <<>> =>
              LET first == C19_First(idx)
              IN  \A k \in 1..Len(sink) :
                     /\ Len(sink[k].ids) >= 1
                     /\ Len(sink[k].ids) = n
                     /\ sink[k].ids[1] = first.id
                     /\ sink[k].description.summary = first.event_subtype
                     /\ sink[k].description.more = n - 1
        /\ (pc \in {"notifying", "done"} /\ n = 0) => SinkOfRun(run) = <<>>
        /\ (pc = "done" /\ n # 0) => Len(SinkOfRun(run)) = 1
C19_Witness ==
    /\ pc = "done" /\ Len(sink) = 1
    /\ Len(feed) = MaxFeed
    /\ is_relevant_event(config, feed[1]) = "False"
    /\ sink[1].ids = <<feed[MaxFeed].id>>
    /\ sink[1].description.more = 0

====
